---- MODULE Spec2Model ----
(***************************************************************************)
(* Model of the Nightscout LibreLink Up Go connector: the scheduler of     *)
(* main(), one sync cycle (syncGlucoseData), the LibreLink client (Login,  *)
(* GetConnections, GetLatestReading) and the Nightscout client             *)
(* (PostGlucoseReading).  The upstream and downstream services, the        *)
(* ticker and the operating system's signal are the environment.           *)
(***************************************************************************)
EXTENDS Integers, Sequences, FiniteSets, TLC

VARIABLES
    pc,          \* where main() stands: "boot", "fatal", "start", a step of a cycle, "select",
                 \* "exited", "panicked"
    authToken,   \* librelink.Client.authToken
    accountID,   \* librelink.Client.accountID
    tickChan,    \* number of ticks buffered in ticker.C (capacity 1)
    sigChan,     \* number of signals buffered in sigChan (capacity 1)
    sigReceived, \* history: a termination request has been delivered to the process
    ticksFired,  \* history: ticks the ticker's timer has fired
    ticksTaken,  \* history: ticks main() has received from ticker.C
    cycles,      \* history: calls of syncGlucoseData started
    active,      \* history: calls of syncGlucoseData that have not returned
    connections, \* syncGlucoseData's local: result of GetConnections
    reading,     \* syncGlucoseData's local: result of GetLatestReading
    elapsed,     \* time.Since(reading.Timestamp) as evaluated in the current cycle
    calls,       \* history: the client calls made in the current cycle, with their outcome
    reqs,        \* history: the HTTP requests sent in the current cycle
    logged,      \* history: the lines the current cycle wrote with log.Print*
    lastErr,     \* history: what the call of syncGlucoseData returned, once it has
    afterFailure, \* history: the call of syncGlucoseData before the current one returned an error
    answers,     \* history: what the services answered to the client calls in `calls`
    baseURL,     \* nightscout.Client.baseURL, as configured
    env,         \* the environment variables of the process
    cfg,         \* main()'s cfg: <<>> before LoadConfig returned one, <<c>> after
    stdout       \* history: the lines Login wrote to standard output in the current cycle

vars == <<pc, authToken, accountID, tickChan, sigChan, sigReceived, ticksFired,
          ticksTaken, cycles, active, connections, reading, elapsed, calls, reqs,
          logged, lastErr, afterFailure, answers, baseURL, env, cfg, stdout>>

----------------------------------------------------------------------------
(* Bounds of the model *)

\* ticks the ticker fires in a run
MaxTicks == 2
\* longest connection list the upstream returns
MaxConns == 2

\* largest trend code the upstream sends to a client called directly
MaxTrendCode == 9

(* Program constants *)

\* c.authToken[:20]
TokenPrefixLen == 20
\* 15*time.Minute
StaleThreshold == 15
\* http.StatusOK
StatusOK == 200

----------------------------------------------------------------------------
(* Values *)

\* "no value": a nil pointer, an absent header, no error
Absent == "<absent>"

\* bearer tokens the upstream may return: none, one shorter than the logged
\* prefix, two long ones
Tokens == {"", "short-token", "token-AAAAAAAAAAAAAAAAAAAA", "token-BBBBBBBBBBBBBBBBBBBB"}
AccountIDs == {"", "ACC123", "ACC456"}
PatientIDs == {"P1", "P2"}
\* 200: success for both services; 204: success for the downstream only
HTTPStatuses == {200, 204, 401}
Bodies == {"Unauthorized"}
TrendCodes == {0, 4}
\* the Timestamp strings of the upstream's measurements
TimestampStrings == {"11/19/2024 3:14:29 PM", "yesterday"}

\* the wider answers given to a client that is called directly
AllTrendCodes == -1..MaxTrendCode
AllTimestampStrings ==
    {"11/19/2024 3:14:29 PM", "11/19/2024 15:14:29", "2024-11-19T15:14:29Z",
     "11/19/2024 3:14:29.123 PM", "2024-11-19T15:14:29.123Z", "", "yesterday"}
DownstreamStatuses == {199, 200, 204, 299, 300, 401}
AllBodies == {"", "Unauthorized"}
\* trend labels of the readings a caller may build
TrendLabels ==
    {"DoubleUp", "SingleUp", "FortyFiveUp", "Flat", "FortyFiveDown", "SingleDown",
     "DoubleDown", "Unknown", "NotComputable"}
\* values of time.Since(reading.Timestamp), in minutes
Elapsed == {StaleThreshold, StaleThreshold + 1}

\* URLs are sequences of pieces of text; ":" and "/" are always pieces of
\* their own, so a piece other than ":" holds no colon
BaseURLs ==
    { <<"nightscout", ":", "1337">>,
      <<"ns.example.com">>,
      <<"http", ":", "/", "/", "nightscout", ":", "1337">>,
      <<"https", ":", "/", "/", "ns.example.com">>,
      <<"HTTPS", ":", "/", "/", "ns.example.com">>,
      <<"ns.example.com", "/", "a", ":", "b">> }
\* NIGHTSCOUT_URL of the running process
ConfiguredURL == <<"nightscout", ":", "1337">>

Username == "user@example.com"
Password == "s3cret"

\* error values: the message of fmt.Errorf, with the status and body it formats
Err(msg, status, body) == [msg |-> msg, status |-> status, body |-> body]
NoErr == Err("nil", 0, "")

ErrLoginTransport  == "login request failed"
ErrLoginHTTP       == "login failed with HTTP status"
ErrLoginDecode     == "failed to decode login response"
ErrLoginAPIStatus  == "login failed with API status"
ErrNotAuth         == "not authenticated, call Login() first"
ErrConnTransport   == "connections request failed"
ErrConnHTTP        == "connections request failed with status"
ErrConnDecode      == "failed to decode connections response"
ErrGraphTransport  == "glucose request failed"
ErrGraphHTTP       == "glucose request failed with status"
ErrGraphDecode     == "failed to decode glucose response"
ErrTimestamp       == "failed to parse timestamp"
ErrNilReading      == "reading is nil"
ErrPostTransport   == "request failed"
ErrPostHTTP        == "request failed with status"

\* all sequences over S of length 0..n
RECURSIVE SeqsUpTo(_, _)
SeqsUpTo(S, n) ==
    IF n = 0 THEN {<<>>}
    ELSE LET shorter == SeqsUpTo(S, n - 1)
         IN  shorter \cup {Append(s, x) : s \in {t \in shorter : Len(t) = n - 1}, x \in S}

----------------------------------------------------------------------------
(* What the services answer.  transport = FALSE: httpClient.Do returned an *)
(* error (unreachable, timeout).  parses = FALSE: json.Unmarshal fails.    *)

\* an answer that never came
NoAnswer == [transport |-> FALSE, http |-> 0, body |-> "", parses |-> FALSE]
\* an answer with an HTTP status the upstream client rejects
Rejections ==
    [transport : {TRUE}, http : HTTPStatuses \ {StatusOK}, body : Bodies, parses : {FALSE}]
\* a 200 answer whose body is not the JSON expected
Garbled == [transport |-> TRUE, http |-> StatusOK, body |-> "", parses |-> FALSE]
\* a 200 answer whose body parses
Parsed == [transport |-> TRUE, http |-> StatusOK, body |-> "", parses |-> TRUE]

\* r extended with the fields of the record more
With(r, more) ==
    [f \in DOMAIN r \cup DOMAIN more |-> IF f \in DOMAIN more THEN more[f] ELSE r[f]]

NoLogin == [status |-> 0, token |-> "", id |-> ""]
LoginResponses ==
    {With(r, NoLogin) : r \in {NoAnswer, Garbled} \cup Rejections}
    \cup {With(Parsed, [status |-> 2, token |-> "", id |-> ""])}
    \cup {With(Parsed, [status |-> 0, token |-> t, id |-> i]) : t \in Tokens, i \in AccountIDs}

ConnectionsResponses ==
    {With(r, [data |-> <<>>]) : r \in {NoAnswer, Garbled} \cup Rejections}
    \cup {With(Parsed, [data |-> d]) : d \in SeqsUpTo(PatientIDs, MaxConns)}

\* a graph answer without a measurement: the Timestamp is the empty string
NoGraph == [Timestamp |-> "", trend |-> 0]
GraphResponsesOver(stamps, codes) ==
    {With(r, NoGraph) : r \in {NoAnswer, Garbled} \cup Rejections}
    \cup {With(Parsed, NoGraph)}
    \cup {With(Parsed, [Timestamp |-> t, trend |-> c]) : t \in stamps, c \in codes}
GraphResponses == GraphResponsesOver(TimestampStrings, TrendCodes)
AnyGraphResponses == GraphResponsesOver(AllTimestampStrings, AllTrendCodes)

EntriesResponsesOver(statuses, bodies) ==
    {[transport |-> FALSE, http |-> 0, body |-> ""]}
    \cup [transport : {TRUE}, http : statuses, body : bodies]
EntriesResponses == EntriesResponsesOver(HTTPStatuses, Bodies)
AnyEntriesResponses == EntriesResponsesOver(DownstreamStatuses, AllBodies)

----------------------------------------------------------------------------
(* The LibreLink client *)

\* hex.EncodeToString(sha256(accountID)): a digest, never the identifier itself
Sha256Hex(id) ==
    CASE id = "ACC123" -> "d1967a2c9e48be0bf09428c4acc3e6107ae1248c3d60809eaf2384bb7f19585b"
      [] id = "ACC456" -> "a0e0f5490aada2dedbb309158f9fbc36f69a296b8393b0a2475ddcef3113f277"
      [] id = "" -> "e3b0c44298fc1c149afbf4c8996fb92427ae41e4649b934ca495991b7852b855"
      [] OTHER -> "sha256:" \o id

\* hex.EncodeToString of a SHA-256 sum: 32 bytes, two characters each
DigestHexLen == 64

\* setHeaders sending the identifier itself
AccountIdHeaderRaw(c) ==
    IF c.accountID # "" /\ c.authToken # "" THEN c.accountID ELSE Absent

\* Client.setHeaders: the account-id header, sent only when a session exists
AccountIdHeader(c) ==
    IF c.accountID # "" /\ c.authToken # "" THEN Sha256Hex(c.accountID) ELSE Absent

\* an outbound HTTP request: its endpoint, the patient id in its path, its
\* Authorization bearer token, its account-id header and its JSON body
Request(kind, patient, bearer, accountId, body) ==
    [kind |-> kind, patient |-> patient, bearer |-> bearer,
     accountId |-> accountId, body |-> body]

NoBody == [email |-> Absent, password |-> Absent]

\* trendArrowToString that takes the code 0 for "Flat"
trendArrowToStringZeroFlat(arrow) ==
    CASE arrow = 1 -> "DoubleUp"
      [] arrow = 2 -> "SingleUp"
      [] arrow = 3 -> "FortyFiveUp"
      [] arrow = 4 -> "Flat"
      [] arrow = 0 -> "Flat"
      [] arrow = 5 -> "FortyFiveDown"
      [] arrow = 6 -> "SingleDown"
      [] arrow = 7 -> "DoubleDown"
      [] OTHER -> "Unknown"

trendArrowToString(arrow) ==
    CASE arrow = 1 -> "DoubleUp"
      [] arrow = 2 -> "SingleUp"
      [] arrow = 3 -> "FortyFiveUp"
      [] arrow = 4 -> "Flat"
      [] arrow = 5 -> "FortyFiveDown"
      [] arrow = 6 -> "SingleDown"
      [] arrow = 7 -> "DoubleDown"
      [] OTHER -> "Unknown"

\* Login of a client that keeps its session: a call on an authenticated
\* client sends nothing and keeps the stored token
LoginCached(c, resp) ==
    LET req == Request("login", Absent, Absent, AccountIdHeader(c),
                       [email |-> Username, password |-> Password])
        out(err, tok, id, got, panic) ==
            [err |-> err, authToken |-> tok, accountID |-> id, got |-> got,
             panic |-> panic, reqs |-> <<req>>]
    IN  IF c.authToken # "" THEN
            [err |-> NoErr, authToken |-> c.authToken, accountID |-> c.accountID,
             got |-> Absent, panic |-> FALSE, reqs |-> <<>>]
        ELSE IF ~resp.transport THEN
            out(Err(ErrLoginTransport, 0, ""), c.authToken, c.accountID, Absent, FALSE)
        ELSE IF resp.http # StatusOK THEN
            out(Err(ErrLoginHTTP, resp.http, resp.body), c.authToken, c.accountID, Absent, FALSE)
        ELSE IF ~resp.parses THEN
            out(Err(ErrLoginDecode, 0, ""), c.authToken, c.accountID, Absent, FALSE)
        ELSE IF resp.status # 0 THEN
            out(Err(ErrLoginAPIStatus, resp.status, ""), c.authToken, c.accountID, Absent, FALSE)
        ELSE
            out(NoErr, resp.token, resp.id, resp.token, Len(resp.token) < TokenPrefixLen)

\* Login that drops the session it holds when the upstream does not log it in
LoginForgets(c, resp) ==
    LET req == Request("login", Absent, Absent, AccountIdHeader(c),
                       [email |-> Username, password |-> Password])
        out(err, tok, id, got, panic) ==
            [err |-> err, authToken |-> tok, accountID |-> id, got |-> got,
             panic |-> panic, reqs |-> <<req>>]
    IN  IF ~resp.transport THEN
            out(Err(ErrLoginTransport, 0, ""), "", "", Absent, FALSE)
        ELSE IF resp.http # StatusOK THEN
            out(Err(ErrLoginHTTP, resp.http, resp.body), "", "", Absent, FALSE)
        ELSE IF ~resp.parses THEN
            out(Err(ErrLoginDecode, 0, ""), "", "", Absent, FALSE)
        ELSE IF resp.status # 0 THEN
            out(Err(ErrLoginAPIStatus, resp.status, ""), "", "", Absent, FALSE)
        ELSE
            out(NoErr, resp.token, resp.id, resp.token, Len(resp.token) < TokenPrefixLen)

\* Client.Login: what the call returns and leaves in the client, given the
\* upstream's answer.  got: the token of the login response, when one was read.
\* panic: the slice c.authToken[:20] is out of range.
Login(c, resp) ==
    LET req == Request("login", Absent, Absent, AccountIdHeader(c),
                       [email |-> Username, password |-> Password])
        out(err, tok, id, got, panic) ==
            [err |-> err, authToken |-> tok, accountID |-> id, got |-> got,
             panic |-> panic, reqs |-> <<req>>]
    IN  IF ~resp.transport THEN
            out(Err(ErrLoginTransport, 0, ""), c.authToken, c.accountID, Absent, FALSE)
        ELSE IF resp.http # StatusOK THEN
            out(Err(ErrLoginHTTP, resp.http, resp.body), c.authToken, c.accountID, Absent, FALSE)
        ELSE IF ~resp.parses THEN
            out(Err(ErrLoginDecode, 0, ""), c.authToken, c.accountID, Absent, FALSE)
        ELSE IF resp.status # 0 THEN
            out(Err(ErrLoginAPIStatus, resp.status, ""), c.authToken, c.accountID, Absent, FALSE)
        ELSE
            out(NoErr, resp.token, resp.id, resp.token, Len(resp.token) < TokenPrefixLen)

\* what Login writes to standard output: lines of text in pieces.  The JSON
\* of the request body holds the email and the password.
LoginOutput(c, resp) ==
    LET before ==
            {<<"DEBUG: Attempting login to ", "/llu/auth/login", " with email: ", Username>>,
             <<"DEBUG: Request body: ", "{\"email\":\"", Username, "\",\"password\":\"",
               Password, "\"}">>,
             <<"DEBUG: Request headers:">>}
            \cup (IF AccountIdHeader(c) = Absent THEN {}
                  ELSE {<<"  Account-Id: ", AccountIdHeader(c)>>})
        answered ==
            {<<"DEBUG: Response status: ", ToString(resp.http)>>,
             <<"DEBUG: Response body: ", resp.body>>}
    IN  IF ~resp.transport THEN before
        ELSE IF resp.http # StatusOK \/ ~resp.parses THEN before \cup answered
        ELSE IF resp.status # 0 THEN
            before \cup answered \cup {<<"DEBUG: Full login response: ", ToString(resp.status)>>}
        ELSE IF Len(resp.token) < TokenPrefixLen THEN before \cup answered
        ELSE before \cup answered
             \cup {<<"DEBUG: Successfully authenticated, token: ", resp.token, "...">>,
                   <<"DEBUG: Account ID: ", resp.id>>}

\* a connection of the upstream list: the names come with the patient
Connection(patientID, firstName) == [PatientID |-> patientID, FirstName |-> firstName]
FirstNameOf(patientID) == "Name-" \o patientID

\* GetConnections without the authentication check
GetConnectionsUnchecked(c, resp) ==
    LET req == Request("connections", Absent, c.authToken, AccountIdHeader(c), NoBody)
        out(err, conns) == [err |-> err, conns |-> conns, reqs |-> <<req>>]
    IN  IF ~resp.transport THEN
            out(Err(ErrConnTransport, 0, ""), <<>>)
        ELSE IF resp.http # StatusOK THEN
            out(Err(ErrConnHTTP, resp.http, resp.body), <<>>)
        ELSE IF ~resp.parses THEN
            out(Err(ErrConnDecode, 0, ""), <<>>)
        ELSE IF Len(resp.data) = 0 THEN
            out(NoErr, <<Connection(c.accountID, "Self")>>)
        ELSE
            out(NoErr, [i \in 1..Len(resp.data) |->
                           Connection(resp.data[i], FirstNameOf(resp.data[i]))])

\* GetConnections that returns an empty upstream list as it is
GetConnectionsNoFallback(c, resp) ==
    LET req == Request("connections", Absent, c.authToken, AccountIdHeader(c), NoBody)
        out(err, conns) == [err |-> err, conns |-> conns, reqs |-> <<req>>]
    IN  IF c.authToken = "" THEN
            [err |-> Err(ErrNotAuth, 0, ""), conns |-> <<>>, reqs |-> <<>>]
        ELSE IF ~resp.transport THEN
            out(Err(ErrConnTransport, 0, ""), <<>>)
        ELSE IF resp.http # StatusOK THEN
            out(Err(ErrConnHTTP, resp.http, resp.body), <<>>)
        ELSE IF ~resp.parses THEN
            out(Err(ErrConnDecode, 0, ""), <<>>)
        ELSE
            out(NoErr, [i \in 1..Len(resp.data) |->
                           Connection(resp.data[i], FirstNameOf(resp.data[i]))])

\* Client.GetConnections
GetConnections(c, resp) ==
    LET req == Request("connections", Absent, c.authToken, AccountIdHeader(c), NoBody)
        out(err, conns) == [err |-> err, conns |-> conns, reqs |-> <<req>>]
    IN  IF c.authToken = "" THEN
            [err |-> Err(ErrNotAuth, 0, ""), conns |-> <<>>, reqs |-> <<>>]
        ELSE IF ~resp.transport THEN
            out(Err(ErrConnTransport, 0, ""), <<>>)
        ELSE IF resp.http # StatusOK THEN
            out(Err(ErrConnHTTP, resp.http, resp.body), <<>>)
        ELSE IF ~resp.parses THEN
            out(Err(ErrConnDecode, 0, ""), <<>>)
        ELSE IF Len(resp.data) = 0 THEN
            out(NoErr, <<Connection(c.accountID, "Self")>>)
        ELSE
            out(NoErr, [i \in 1..Len(resp.data) |->
                           Connection(resp.data[i], FirstNameOf(resp.data[i]))])

\* time.Time{}, the zero time: no text of the model denotes it
ZeroTime == 0

\* time.ParseInLocation(layout, value, time.Local): ok and the instant, for
\* the values of the model.  Instants are in milliseconds after 2024-11-19
\* 15:14:00 of the local zone, taken to be UTC.  A value may carry a fraction
\* after the seconds that the layout does not name; text left over after the
\* layout is an error.
ParseInLocation(layout, value) ==
    LET yes(t) == [ok |-> TRUE, t |-> t]
        no == [ok |-> FALSE, t |-> ZeroTime]
    IN  CASE layout = "1/2/2006 3:04:05 PM" ->
               (CASE value = "11/19/2024 3:14:29 PM" -> yes(29000)
                  [] value = "11/19/2024 3:14:29.123 PM" -> yes(29123)
                  [] OTHER -> no)
          [] layout = "01/02/2006 15:04:05" ->
               (CASE value = "11/19/2024 15:14:29" -> yes(29000)
                  [] OTHER -> no)
          [] layout = "2006-01-02T15:04:05Z07:00" ->
               (CASE value = "2024-11-19T15:14:29Z" -> yes(29000)
                  [] value = "2024-11-19T15:14:29.123Z" -> yes(29123)
                  [] OTHER -> no)
          [] OTHER -> no

\* the formats of parseLibreLinkTimestamp, in the order it tries them
TimestampFormats ==
    <<"1/2/2006 3:04:05 PM", "01/02/2006 15:04:05", "2006-01-02T15:04:05Z07:00">>

\* parseLibreLinkTimestamp: the first format that parses decides; none: an error
parseLibreLinkTimestamp(timestamp) ==
    LET hits == {i \in 1..Len(TimestampFormats) :
                   ParseInLocation(TimestampFormats[i], timestamp).ok}
    IN  IF hits = {} THEN [ok |-> FALSE, t |-> ZeroTime]
        ELSE LET first == CHOOSE i \in hits : \A j \in hits : i <= j
             IN  ParseInLocation(TimestampFormats[first], timestamp)

\* the instants parseLibreLinkTimestamp returns for the upstream's strings
Timestamps ==
    {parseLibreLinkTimestamp(s).t :
        s \in {x \in AllTimestampStrings : parseLibreLinkTimestamp(x).ok}}

\* a *GlucoseReading
GlucoseReading(ts, trend) ==
    [Unit |-> "mg/dL", Timestamp |-> ts, TrendArrow |-> trend]

\* GetLatestReading that does not look at the error of parseLibreLinkTimestamp
GetLatestReadingAnyTimestamp(c, patientID, resp) ==
    LET req == Request("graph", patientID, c.authToken, AccountIdHeader(c), NoBody)
        out(err, rd) == [err |-> err, reading |-> rd, reqs |-> <<req>>]
    IN  IF c.authToken = "" THEN
            [err |-> Err(ErrNotAuth, 0, ""), reading |-> <<>>, reqs |-> <<>>]
        ELSE IF ~resp.transport THEN
            out(Err(ErrGraphTransport, 0, ""), <<>>)
        ELSE IF resp.http # StatusOK THEN
            out(Err(ErrGraphHTTP, resp.http, resp.body), <<>>)
        ELSE IF ~resp.parses THEN
            out(Err(ErrGraphDecode, 0, ""), <<>>)
        ELSE
            out(NoErr, <<GlucoseReading(parseLibreLinkTimestamp(resp.Timestamp).t,
                                        trendArrowToString(resp.trend))>>)

\* Client.GetLatestReading; reading is <<>> for nil, <<r>> for a reading
GetLatestReading(c, patientID, resp) ==
    LET req == Request("graph", patientID, c.authToken, AccountIdHeader(c), NoBody)
        out(err, rd) == [err |-> err, reading |-> rd, reqs |-> <<req>>]
    IN  IF c.authToken = "" THEN
            [err |-> Err(ErrNotAuth, 0, ""), reading |-> <<>>, reqs |-> <<>>]
        ELSE IF ~resp.transport THEN
            out(Err(ErrGraphTransport, 0, ""), <<>>)
        ELSE IF resp.http # StatusOK THEN
            out(Err(ErrGraphHTTP, resp.http, resp.body), <<>>)
        ELSE IF ~resp.parses THEN
            out(Err(ErrGraphDecode, 0, ""), <<>>)
        ELSE IF ~parseLibreLinkTimestamp(resp.Timestamp).ok THEN
            out(Err(ErrTimestamp, 0, ""), <<>>)
        ELSE
            out(NoErr, <<GlucoseReading(parseLibreLinkTimestamp(resp.Timestamp).t,
                                        trendArrowToString(resp.trend))>>)

----------------------------------------------------------------------------
(* The Nightscout client *)

\* convertTrendArrow that passes every label on
convertTrendArrowIdentity(arrow) == arrow

convertTrendArrow(arrow) ==
    IF arrow \in {"DoubleUp", "SingleUp", "FortyFiveUp", "Flat",
                  "FortyFiveDown", "SingleDown", "DoubleDown"}
    THEN arrow ELSE "NONE"

\* strings.HasPrefix and strings.Contains, on URLs given in pieces
HasPrefix(s, prefix) ==
    Len(s) >= Len(prefix) /\ SubSeq(s, 1, Len(prefix)) = prefix
Contains(s, piece) == \E i \in 1..Len(s) : s[i] = piece

\* the base URL PostGlucoseReading posts under
NormalizedBaseURL(base) ==
    IF ~HasPrefix(base, <<"http", ":", "/", "/">>) /\ ~HasPrefix(base, <<"https", ":", "/", "/">>)
    THEN IF Contains(base, ":")
         THEN <<"http", ":", "/", "/">> \o base
         ELSE <<"https", ":", "/", "/">> \o base
    ELSE base

\* the URL of the entries request
EntriesURL(base) == NormalizedBaseURL(base) \o <<"/", "api", "/", "v1", "/", "entries">>

\* t.Format(time.RFC3339) of an instant of the minute the model's instants
\* lie in: the text has the seconds and nothing below them
FormatRFC3339(t) == "2024-11-19T15:14:" \o ToString(t \div 1000) \o "Z"

\* the entries request for a reading: date is Entry.Date, dateString is
\* Entry.DateString, direction is Entry.Direction
EntriesRequest(rd) ==
    [kind |-> "entries", patient |-> Absent, bearer |-> Absent, accountId |-> Absent,
     body |-> NoBody, direction |-> convertTrendArrow(rd.TrendArrow),
     date |-> rd.Timestamp, dateString |-> FormatRFC3339(rd.Timestamp),
     url |-> EntriesURL(baseURL)]

\* PostGlucoseReading that tries a failed request a second time
PostGlucoseReadingRetry(rd, resp) ==
    IF Len(rd) = 0 THEN
        [err |-> Err(ErrNilReading, 0, ""), reqs |-> <<>>]
    ELSE IF ~resp.transport THEN
        [err |-> Err(ErrPostTransport, 0, ""),
         reqs |-> <<EntriesRequest(rd[1]), EntriesRequest(rd[1])>>]
    ELSE IF resp.http < 200 \/ resp.http >= 300 THEN
        [err |-> Err(ErrPostHTTP, resp.http, resp.body),
         reqs |-> <<EntriesRequest(rd[1]), EntriesRequest(rd[1])>>]
    ELSE
        [err |-> NoErr, reqs |-> <<EntriesRequest(rd[1])>>]

\* PostGlucoseReading that takes 200 alone for success
PostGlucoseReadingOnly200(rd, resp) ==
    IF Len(rd) = 0 THEN
        [err |-> Err(ErrNilReading, 0, ""), reqs |-> <<>>]
    ELSE IF ~resp.transport THEN
        [err |-> Err(ErrPostTransport, 0, ""), reqs |-> <<EntriesRequest(rd[1])>>]
    ELSE IF resp.http # 200 THEN
        [err |-> Err(ErrPostHTTP, resp.http, resp.body), reqs |-> <<EntriesRequest(rd[1])>>]
    ELSE
        [err |-> NoErr, reqs |-> <<EntriesRequest(rd[1])>>]

\* PostGlucoseReading that takes a nil reading for nothing to do
PostGlucoseReadingNilOK(rd, resp) ==
    IF Len(rd) = 0 THEN
        [err |-> NoErr, reqs |-> <<>>]
    ELSE IF ~resp.transport THEN
        [err |-> Err(ErrPostTransport, 0, ""), reqs |-> <<EntriesRequest(rd[1])>>]
    ELSE IF resp.http < 200 \/ resp.http >= 300 THEN
        [err |-> Err(ErrPostHTTP, resp.http, resp.body), reqs |-> <<EntriesRequest(rd[1])>>]
    ELSE
        [err |-> NoErr, reqs |-> <<EntriesRequest(rd[1])>>]

\* Client.PostGlucoseReading; rd is <<>> for nil, <<r>> for a reading
PostGlucoseReading(rd, resp) ==
    IF Len(rd) = 0 THEN
        [err |-> Err(ErrNilReading, 0, ""), reqs |-> <<>>]
    ELSE IF ~resp.transport THEN
        [err |-> Err(ErrPostTransport, 0, ""), reqs |-> <<EntriesRequest(rd[1])>>]
    ELSE IF resp.http < 200 \/ resp.http >= 300 THEN
        [err |-> Err(ErrPostHTTP, resp.http, resp.body), reqs |-> <<EntriesRequest(rd[1])>>]
    ELSE
        [err |-> NoErr, reqs |-> <<EntriesRequest(rd[1])>>]

----------------------------------------------------------------------------
(* The configuration *)

\* the regional endpoints of LibreLink Up, by region code
endpoints ==
    [AE |-> "https://api-ae.libreview.io", AP |-> "https://api-ap.libreview.io",
     AU |-> "https://api-au.libreview.io", CA |-> "https://api-ca.libreview.io",
     DE |-> "https://api-de.libreview.io", EU |-> "https://api-eu.libreview.io",
     EU2 |-> "https://api-eu2.libreview.io", FR |-> "https://api-fr.libreview.io",
     JP |-> "https://api-jp.libreview.io", US |-> "https://api-us.libreview.io",
     LA |-> "https://api-la.libreview.io", RU |-> "https://api-ru.libreview.io",
     CN |-> "https://api-cn.libreview.io"]

\* the environments a process is started in; a variable that is not set and a
\* variable set to the empty text are both the empty text (the empty sequence
\* for the URL, which is text in pieces)
Envs ==
    [LINK_UP_USERNAME : {"", Username},
     LINK_UP_PASSWORD : {"", Password},
     LINK_UP_REGION : {"", "EU", "US", "XX", "eu"},
     LINK_UP_TIME_INTERVAL : {"", "1", "5", "0", "-1", "abc", "1.5"},
     NIGHTSCOUT_URL : {<<>>, ConfiguredURL},
     NIGHTSCOUT_API_TOKEN : {"", "api-secret"}]

\* the environment of the running process of Spec
ConfiguredEnv ==
    [LINK_UP_USERNAME |-> Username, LINK_UP_PASSWORD |-> Password, LINK_UP_REGION |-> "",
     LINK_UP_TIME_INTERVAL |-> "", NIGHTSCOUT_URL |-> ConfiguredURL,
     NIGHTSCOUT_API_TOKEN |-> "api-secret"]

\* getEnvOrDefault: the value of the variable unless it is empty
getEnvOrDefault(e, key, defaultValue) ==
    IF Len(e[key]) # 0 THEN e[key] ELSE defaultValue

\* strconv.Atoi on the texts of the model
Atoi(text) ==
    CASE text = "1" -> [ok |-> TRUE, n |-> 1]
      [] text = "5" -> [ok |-> TRUE, n |-> 5]
      [] text = "0" -> [ok |-> TRUE, n |-> 0]
      [] text = "-1" -> [ok |-> TRUE, n |-> -1]
      [] OTHER -> [ok |-> FALSE, n |-> 0]

ErrInterval     == "invalid LINK_UP_TIME_INTERVAL"
ErrNoUsername   == "LINK_UP_USERNAME is required"
ErrNoPassword   == "LINK_UP_PASSWORD is required"
ErrNoURL        == "NIGHTSCOUT_URL is required"
ErrNoAPIToken   == "NIGHTSCOUT_API_TOKEN is required"
ErrIntervalLow  == "LINK_UP_TIME_INTERVAL must be at least 1 minute"
ErrRegion       == "unsupported region"

\* config.LoadConfig: the error and the Config
LoadConfig(e) ==
    LET interval == Atoi(getEnvOrDefault(e, "LINK_UP_TIME_INTERVAL", "1"))
        c == [LinkUpUsername |-> getEnvOrDefault(e, "LINK_UP_USERNAME", ""),
              LinkUpPassword |-> getEnvOrDefault(e, "LINK_UP_PASSWORD", ""),
              LinkUpRegion |-> getEnvOrDefault(e, "LINK_UP_REGION", "EU"),
              LinkUpTimeInterval |-> interval.n,
              NightscoutURL |-> getEnvOrDefault(e, "NIGHTSCOUT_URL", <<>>),
              NightscoutAPIToken |-> getEnvOrDefault(e, "NIGHTSCOUT_API_TOKEN", "")]
    IN  IF ~interval.ok THEN [err |-> Err(ErrInterval, 0, ""), cfg |-> c]
        ELSE [err |-> NoErr, cfg |-> c]

\* a Validate that accepts every configuration
ValidateNothing(c) == NoErr

\* Config.Validate
Validate(c) ==
    IF Len(c.LinkUpUsername) = 0 THEN Err(ErrNoUsername, 0, "")
    ELSE IF Len(c.LinkUpPassword) = 0 THEN Err(ErrNoPassword, 0, "")
    ELSE IF Len(c.NightscoutURL) = 0 THEN Err(ErrNoURL, 0, "")
    ELSE IF Len(c.NightscoutAPIToken) = 0 THEN Err(ErrNoAPIToken, 0, "")
    ELSE IF c.LinkUpTimeInterval < 1 THEN Err(ErrIntervalLow, 0, "")
    ELSE NoErr

\* librelink.NewClient: the error it returns for the region
NewClient(region) ==
    IF region \notin DOMAIN endpoints THEN Err(ErrRegion, 0, "") ELSE NoErr

----------------------------------------------------------------------------
(* The scheduler and the sync cycle (main.go) *)

\* "no call of syncGlucoseData has returned yet"
NoCycleYet == Err("none", 0, "")
\* "a call of syncGlucoseData is running"
Running == Err("running", 0, "")

LineFetching   == "Fetching glucose data from LibreLink Up..."
LineNoConns    == "No active LibreLink connections found"
LineNoReading  == "No glucose reading available"
LineStale      == "Warning: Reading is old, may be stale"
LinePosted     == "Successfully posted glucose data to Nightscout"
LineSyncError  == "Error syncing glucose data"

Init ==
    /\ pc = "start"
    /\ authToken = ""
    /\ accountID = ""
    /\ tickChan = 0
    /\ sigChan = 0
    /\ sigReceived = FALSE
    /\ ticksFired = 0
    /\ ticksTaken = 0
    /\ cycles = 0
    /\ active = 0
    /\ connections = <<>>
    /\ reading = <<>>
    /\ elapsed = 0
    /\ calls = <<>>
    /\ reqs = <<>>
    /\ logged = {}
    /\ lastErr = NoCycleYet
    /\ afterFailure = FALSE
    /\ answers = <<>>
    /\ baseURL = ConfiguredURL
    /\ env = ConfiguredEnv
    /\ cfg = <<LoadConfig(ConfiguredEnv).cfg>>
    /\ stdout = {}

client == [authToken |-> authToken, accountID |-> accountID]

\* the process is running: main() has neither returned nor panicked
Alive == pc \notin {"exited", "panicked"}

(* The environment of the scheduler *)

\* the ticker's timer fires: a non-blocking send on ticker.C, whose buffer
\* holds one tick; a tick that finds the buffer full is dropped.  The first
\* tick is an interval (a minute at least) after time.NewTicker, and main()
\* makes its initial call right after it.
Tick ==
    /\ Alive
    /\ pc # "start"
    /\ ticksFired < MaxTicks
    /\ ticksFired' = ticksFired + 1
    /\ tickChan' = 1
    /\ UNCHANGED <<baseURL, env, cfg, stdout, answers, afterFailure, pc, authToken, accountID, sigChan, sigReceived, ticksTaken, cycles,
                   active, connections, reading, elapsed, calls, reqs, logged, lastErr>>

\* SIGINT or SIGTERM is delivered: signal.Notify puts it in sigChan
Signal ==
    /\ Alive
    /\ ~sigReceived
    /\ sigReceived' = TRUE
    /\ sigChan' = 1
    /\ UNCHANGED <<baseURL, env, cfg, stdout, answers, afterFailure, pc, authToken, accountID, tickChan, ticksFired, ticksTaken, cycles,
                   active, connections, reading, elapsed, calls, reqs, logged, lastErr>>

(* syncGlucoseData *)

\* entry of syncGlucoseData: its locals are fresh, the first step is Login
StartCycle ==
    /\ pc' = "Login"
    /\ cycles' = cycles + 1
    /\ active' = active + 1
    /\ connections' = <<>>
    /\ reading' = <<>>
    /\ elapsed' = 0
    /\ calls' = <<>>
    /\ reqs' = <<>>
    /\ logged' = {LineFetching}
    /\ lastErr' = Running
    /\ afterFailure' = (lastErr \notin {NoCycleYet, Running, NoErr})
    /\ answers' = <<>>
    /\ stdout' = {}

\* a return of syncGlucoseData that ends the process when it returns an error
FinishFatal(err, lines) ==
    /\ pc' = IF err # NoErr THEN "exited" ELSE "select"
    /\ active' = active - 1
    /\ lastErr' = err
    /\ logged' = lines \cup (IF err # NoErr THEN {LineSyncError} ELSE {})

\* return of syncGlucoseData to main(): main logs an error and goes (back) to
\* the select of its loop
Finish(err, lines) ==
    /\ pc' = "select"
    /\ active' = active - 1
    /\ lastErr' = err
    /\ logged' = lines \cup (IF err # NoErr THEN {LineSyncError} ELSE {})

\* a step whose error is ignored
AbortsNever(err) == FALSE

\* `if err != nil { return err }` after each step
Aborts(err) == err # NoErr

\* the staleness test with the threshold included
StaleFromThreshold(since) == since >= StaleThreshold

\* `time.Since(reading.Timestamp) > 15*time.Minute`
Stale(since) == since > StaleThreshold

\* one client call of the cycle, as the history keeps it
Call(step, err, got) == [step |-> step, err |-> err, got |-> got]

LoginStep ==
    /\ pc = "Login"
    /\ \E resp \in LoginResponses :
         LET r == Login(client, resp)
         IN  /\ authToken' = r.authToken
             /\ accountID' = r.accountID
             /\ reqs' = reqs \o r.reqs
             /\ answers' = Append(answers, resp)
             /\ calls' = Append(calls, Call("Login", r.err, r.got))
             /\ stdout' = stdout \cup LoginOutput(client, resp)
             /\ IF r.panic THEN
                    /\ pc' = "panicked"
                    /\ UNCHANGED <<active, lastErr, logged>>
                ELSE IF Aborts(r.err) THEN
                    Finish(r.err, logged)
                ELSE
                    /\ pc' = "GetConnections"
                    /\ UNCHANGED <<active, lastErr, logged>>
    /\ UNCHANGED <<baseURL, env, cfg, afterFailure, tickChan, sigChan, sigReceived, ticksFired, ticksTaken, cycles,
                   connections, reading, elapsed>>

GetConnectionsStep ==
    /\ pc = "GetConnections"
    /\ \E resp \in ConnectionsResponses :
         LET r == GetConnections(client, resp)
         IN  /\ reqs' = reqs \o r.reqs
             /\ answers' = Append(answers, resp)
             /\ calls' = Append(calls, Call("GetConnections", r.err, Absent))
             /\ connections' = r.conns
             /\ IF Aborts(r.err) THEN
                    Finish(r.err, logged)
                ELSE IF Len(r.conns) = 0 THEN
                    Finish(NoErr, logged \cup {LineNoConns})
                ELSE
                    /\ pc' = "GetLatestReading"
                    /\ UNCHANGED <<active, lastErr, logged>>
    /\ UNCHANGED <<baseURL, env, cfg, stdout, afterFailure, authToken, accountID, tickChan, sigChan, sigReceived, ticksFired,
                   ticksTaken, cycles, reading, elapsed>>

\* a cycle that reads the last connection of the list
GetLatestReadingStepLast ==
    /\ pc = "GetLatestReading"
    /\ \E resp \in GraphResponses, since \in Elapsed :
         LET r == GetLatestReading(client, connections[Len(connections)].PatientID, resp)
         IN  /\ reqs' = reqs \o r.reqs
             /\ answers' = Append(answers, resp)
             /\ calls' = Append(calls, Call("GetLatestReading", r.err, Absent))
             /\ reading' = r.reading
             /\ IF Aborts(r.err) THEN
                    /\ elapsed' = elapsed
                    /\ Finish(r.err, logged)
                ELSE IF Len(r.reading) = 0 THEN
                    /\ elapsed' = elapsed
                    /\ Finish(NoErr, logged \cup {LineNoReading})
                ELSE
                    /\ elapsed' = since
                    /\ logged' = logged \cup (IF Stale(since) THEN {LineStale} ELSE {})
                    /\ pc' = "PostGlucoseReading"
                    /\ UNCHANGED <<active, lastErr>>
    /\ UNCHANGED <<baseURL, env, cfg, stdout, afterFailure, authToken, accountID, tickChan, sigChan, sigReceived, ticksFired,
                   ticksTaken, cycles, connections>>

\* the call of GetLatestReading and, on success, the staleness check that
\* follows it up to the call of PostGlucoseReading
GetLatestReadingStep ==
    /\ pc = "GetLatestReading"
    /\ \E resp \in GraphResponses, since \in Elapsed :
         LET r == GetLatestReading(client, connections[1].PatientID, resp)
         IN  /\ reqs' = reqs \o r.reqs
             /\ answers' = Append(answers, resp)
             /\ calls' = Append(calls, Call("GetLatestReading", r.err, Absent))
             /\ reading' = r.reading
             /\ IF Aborts(r.err) THEN
                    /\ elapsed' = elapsed
                    /\ Finish(r.err, logged)
                ELSE IF Len(r.reading) = 0 THEN
                    /\ elapsed' = elapsed
                    /\ Finish(NoErr, logged \cup {LineNoReading})
                ELSE
                    /\ elapsed' = since
                    /\ logged' = logged \cup (IF Stale(since) THEN {LineStale} ELSE {})
                    /\ pc' = "PostGlucoseReading"
                    /\ UNCHANGED <<active, lastErr>>
    /\ UNCHANGED <<baseURL, env, cfg, stdout, afterFailure, authToken, accountID, tickChan, sigChan, sigReceived, ticksFired,
                   ticksTaken, cycles, connections>>

PostGlucoseReadingStep ==
    /\ pc = "PostGlucoseReading"
    /\ \E resp \in EntriesResponses :
         LET r == PostGlucoseReading(reading, resp)
         IN  /\ reqs' = reqs \o r.reqs
             /\ answers' = Append(answers, resp)
             /\ calls' = Append(calls, Call("PostGlucoseReading", r.err, Absent))
             /\ IF Aborts(r.err) THEN
                    Finish(r.err, logged)
                ELSE
                    Finish(NoErr, logged \cup {LinePosted})
    /\ UNCHANGED <<baseURL, env, cfg, stdout, afterFailure, authToken, accountID, tickChan, sigChan, sigReceived, ticksFired,
                   ticksTaken, cycles, connections, reading, elapsed>>

(* main *)

\* a main() that starts its loop without the first call of syncGlucoseData
InitialRunSkipped ==
    /\ pc = "start"
    /\ pc' = "select"
    /\ UNCHANGED <<baseURL, env, cfg, stdout, answers, afterFailure, authToken, accountID, tickChan, sigChan, sigReceived, ticksFired,
                   ticksTaken, cycles, active, connections, reading, elapsed, calls,
                   reqs, logged, lastErr>>

\* "Initial run": the call of syncGlucoseData before the loop
InitialRun ==
    /\ pc = "start"
    /\ StartCycle
    /\ UNCHANGED <<baseURL, env, cfg, authToken, accountID, tickChan, sigChan, sigReceived, ticksFired,
                   ticksTaken>>

\* a loop that takes a tick while a call of syncGlucoseData is still running
\* (the call made in a goroutine of its own)
AtSelectOrInCycle == pc \notin {"start", "exited", "panicked"}

\* main() is blocked in the select of its loop: every call of syncGlucoseData
\* it made has returned
AtSelect == pc = "select"

\* `case <-ticker.C`: a tick is received and a cycle starts; select may take
\* this case whenever a tick is buffered, whatever sigChan holds
TickCase ==
    /\ AtSelect
    /\ tickChan = 1
    /\ tickChan' = 0
    /\ ticksTaken' = ticksTaken + 1
    /\ StartCycle
    /\ UNCHANGED <<baseURL, env, cfg, authToken, accountID, sigChan, sigReceived, ticksFired>>

\* `case <-sigChan`: main() returns
SigCase ==
    /\ AtSelect
    /\ sigChan = 1
    /\ sigChan' = 0
    /\ pc' = "exited"
    /\ UNCHANGED <<baseURL, env, cfg, stdout, answers, afterFailure, authToken, accountID, tickChan, sigReceived, ticksFired, ticksTaken,
                   cycles, active, connections, reading, elapsed, calls, reqs, logged,
                   lastErr>>

Next ==
    \/ Tick
    \/ Signal
    \/ InitialRun
    \/ TickCase
    \/ SigCase
    \/ LoginStep
    \/ GetConnectionsStep
    \/ GetLatestReadingStep
    \/ PostGlucoseReadingStep

Spec == Init /\ [][Next]_vars

\* what the scheduling guarantees: a select with a ready case proceeds, main
\* makes its initial call, and a client call returns (every request has the
\* 30 s timeout of its http.Client); nothing makes the ticker fire or a
\* signal arrive
FairSpec ==
    /\ Spec
    /\ WF_vars(TickCase \/ SigCase)
    /\ WF_vars(InitialRun)
    /\ WF_vars(LoginStep \/ GetConnectionsStep \/ GetLatestReadingStep
                 \/ PostGlucoseReadingStep)

----------------------------------------------------------------------------
(* Startup: main() from its first statement to the Login of the initial run *)

LineLoadFailed   == "Failed to load configuration"
LineInvalid      == "Invalid configuration"
LineClientFailed == "Failed to create LibreLink client"
LineConfigLoaded == "Configuration loaded"

\* the interval of the ticker, in minutes
TickerInterval == cfg[1].LinkUpTimeInterval

\* main() up to time.NewTicker: the configuration is loaded and validated and
\* the clients are created; log.Fatalf ends the process
Startup ==
    /\ pc = "boot"
    /\ LET l == LoadConfig(env)
       IN  IF l.err # NoErr THEN
               /\ pc' = "fatal"
               /\ logged' = {LineLoadFailed}
               /\ UNCHANGED <<cfg, baseURL>>
           ELSE IF Validate(l.cfg) # NoErr THEN
               /\ pc' = "fatal"
               /\ logged' = {LineInvalid}
               /\ cfg' = <<l.cfg>>
               /\ UNCHANGED baseURL
           ELSE IF NewClient(l.cfg.LinkUpRegion) # NoErr THEN
               /\ pc' = "fatal"
               /\ logged' = {LineConfigLoaded, LineClientFailed}
               /\ cfg' = <<l.cfg>>
               /\ UNCHANGED baseURL
           ELSE
               /\ pc' = "start"
               /\ logged' = {LineConfigLoaded}
               /\ cfg' = <<l.cfg>>
               /\ baseURL' = l.cfg.NightscoutURL
    /\ UNCHANGED <<env, stdout, authToken, accountID, tickChan, sigChan, sigReceived, ticksFired,
                   ticksTaken, cycles, active, connections, reading, elapsed, calls, reqs,
                   lastErr, afterFailure, answers>>

\* a process at its start, in any environment
StartupInit ==
    /\ pc = "boot"
    /\ authToken = ""
    /\ accountID = ""
    /\ tickChan = 0
    /\ sigChan = 0
    /\ sigReceived = FALSE
    /\ ticksFired = 0
    /\ ticksTaken = 0
    /\ cycles = 0
    /\ active = 0
    /\ connections = <<>>
    /\ reading = <<>>
    /\ elapsed = 0
    /\ calls = <<>>
    /\ reqs = <<>>
    /\ logged = {}
    /\ lastErr = NoCycleYet
    /\ afterFailure = FALSE
    /\ answers = <<>>
    /\ baseURL = <<>>
    /\ env \in Envs
    /\ cfg = <<>>
    /\ stdout = {}

\* the start of a process up to the Login of its initial run
StartupNext ==
    \/ Startup
    \/ InitialRun
    \/ LoginStep

StartupSpec == StartupInit /\ [][StartupNext]_vars

----------------------------------------------------------------------------
(* The clients called directly, in any order, as a caller of the packages  *)
(* may: calls and reqs hold the last call and the requests it sent.        *)

ClientInit ==
    /\ pc = "client"
    /\ authToken = ""
    /\ accountID = ""
    /\ tickChan = 0
    /\ sigChan = 0
    /\ sigReceived = FALSE
    /\ ticksFired = 0
    /\ ticksTaken = 0
    /\ cycles = 0
    /\ active = 0
    /\ connections = <<>>
    /\ reading = <<>>
    /\ elapsed = 0
    /\ calls = <<>>
    /\ reqs = <<>>
    /\ logged = {}
    /\ lastErr = NoCycleYet
    /\ afterFailure = FALSE
    /\ answers = <<>>
    /\ baseURL \in BaseURLs
    /\ env = ConfiguredEnv
    /\ cfg = <<LoadConfig(ConfiguredEnv).cfg>>
    /\ stdout = {}

CallLogin ==
    /\ pc = "client"
    /\ \E resp \in LoginResponses :
         LET r == Login(client, resp)
         IN  /\ authToken' = r.authToken
             /\ accountID' = r.accountID
             /\ reqs' = r.reqs
             /\ answers' = <<resp>>
             /\ calls' = <<Call("Login", r.err, r.got)>>
             /\ stdout' = LoginOutput(client, resp)
             /\ pc' = IF r.panic THEN "panicked" ELSE "returned"
    /\ connections' = <<>>
    /\ reading' = <<>>
    /\ UNCHANGED <<baseURL, env, cfg, tickChan, sigChan, sigReceived, ticksFired, ticksTaken, cycles,
                   active, elapsed, logged, lastErr, afterFailure>>

CallGetConnections ==
    /\ pc = "client"
    /\ \E resp \in ConnectionsResponses :
         LET r == GetConnections(client, resp)
         IN  /\ reqs' = r.reqs
             /\ answers' = <<resp>>
             /\ calls' = <<Call("GetConnections", r.err, Absent)>>
             /\ connections' = r.conns
    /\ reading' = <<>>
    /\ pc' = "returned"
    /\ UNCHANGED <<baseURL, env, cfg, stdout, authToken, accountID, tickChan, sigChan, sigReceived, ticksFired,
                   ticksTaken, cycles, active, elapsed, logged, lastErr, afterFailure>>

CallGetLatestReading ==
    /\ pc = "client"
    /\ \E patientID \in PatientIDs \cup AccountIDs, resp \in AnyGraphResponses :
         LET r == GetLatestReading(client, patientID, resp)
         IN  /\ reqs' = r.reqs
             /\ answers' = <<resp>>
             /\ calls' = <<Call("GetLatestReading", r.err, Absent)>>
             /\ reading' = r.reading
    /\ connections' = <<>>
    /\ pc' = "returned"
    /\ UNCHANGED <<baseURL, env, cfg, stdout, authToken, accountID, tickChan, sigChan, sigReceived, ticksFired,
                   ticksTaken, cycles, active, elapsed, logged, lastErr, afterFailure>>

\* the readings a caller may pass: nil, or a reading with any label
Readings ==
    {<<>>} \cup {<<GlucoseReading(t, label)>> : t \in Timestamps, label \in TrendLabels}

CallPostGlucoseReading ==
    /\ pc = "client"
    /\ \E rd \in Readings, resp \in AnyEntriesResponses :
         LET r == PostGlucoseReading(rd, resp)
         IN  /\ reqs' = r.reqs
             /\ answers' = <<resp>>
             /\ calls' = <<Call("PostGlucoseReading", r.err, Absent)>>
             /\ reading' = rd
    /\ connections' = <<>>
    /\ pc' = "returned"
    /\ UNCHANGED <<baseURL, env, cfg, stdout, authToken, accountID, tickChan, sigChan, sigReceived, ticksFired,
                   ticksTaken, cycles, active, elapsed, logged, lastErr, afterFailure>>

\* the call has returned: the caller holds the result, and the clients keep
\* their fields for the next call
ClientReturn ==
    /\ pc = "returned"
    /\ pc' = "client"
    /\ connections' = <<>>
    /\ reading' = <<>>
    /\ calls' = <<>>
    /\ reqs' = <<>>
    /\ answers' = <<>>
    /\ stdout' = {}
    /\ UNCHANGED <<baseURL, env, cfg, authToken, accountID, tickChan, sigChan, sigReceived, ticksFired,
                   ticksTaken, cycles, active, elapsed, logged, lastErr, afterFailure>>

ClientNext ==
    \/ ClientReturn
    \/ CallLogin
    \/ CallGetConnections
    \/ CallGetLatestReading
    \/ CallPostGlucoseReading

ClientSpec == ClientInit /\ [][ClientNext]_vars

----------------------------------------------------------------------------
(* The claims *)

InCycle == pc \in {"Login", "GetConnections", "GetLatestReading", "PostGlucoseReading"}
\* the call of syncGlucoseData has returned an error
CycleFailed == lastErr \notin {NoCycleYet, Running, NoErr}
StepOrder == <<"Login", "GetConnections", "GetLatestReading", "PostGlucoseReading">>
RequestOrder == <<"login", "connections", "graph", "entries">>

\* C1: whatever the services answer, a sync cycle never terminates the
\* process: the process is never brought down in the middle of a cycle.
C1_CycleNeverTerminatesProcess == pc # "panicked"

\* C2: once the termination request has been received, the scheduler (past
\* its startup call) starts no further sync cycle, also when a tick is
\* pending at the same moment.
C2_NoCycleAfterTermination == [][(sigReceived /\ pc # "start") => cycles' = cycles]_vars

\* C3: at most one call of syncGlucoseData is executing at any time, also
\* when ticks fire while a cycle is running.
C3_AtMostOneCycle == active <= 1

\* C3 witness: the second cycle is running and the next tick has already
\* fired: it waits in the ticker's channel.
C3_Witness == pc = "GetConnections" /\ cycles = 2 /\ active = 1 /\ tickChan = 1

\* C4 (as amended): one cycle is started at startup before any tick is
\* received, and afterwards exactly one cycle per tick received from the
\* ticker's channel; the ticks received and pending never exceed the ticks
\* fired (a tick fired while one is pending is dropped and starts nothing).
C4_OneCyclePerTickTaken ==
    /\ cycles = (IF pc = "start" THEN 0 ELSE 1) + ticksTaken
    /\ ticksTaken + tickChan <= ticksFired

\* C4 witness: two ticks fired, one was received and started the second
\* cycle, none is pending: the other was dropped.
C4_Witness == cycles = 2 /\ ticksFired = 2 /\ ticksTaken = 1 /\ tickChan = 0

\* C4 as stated: while no termination request has been received, an idle
\* scheduler has started one cycle at startup and one for each tick of the timer.
C4_OneCyclePerTimerTick ==
    (pc = "select" /\ tickChan = 0 /\ ~sigReceived) => cycles = 1 + ticksFired

\* C5: after a cycle that ended with an error the process is still in its
\* loop (or has returned on a termination request), a pending tick can be
\* taken, and a tick taken then starts a new cycle, which begins with Login;
\* with a tick pending the new cycle does start, unless a termination
\* request has been received.
C5_NextTickAfterError ==
    /\ (CycleFailed /\ pc = "select" /\ tickChan = 1) ~> (pc = "Login" \/ sigReceived)
    /\ [](CycleFailed => (pc = "select" \/ (pc = "exited" /\ sigReceived)))
    /\ []((CycleFailed /\ pc = "select" /\ tickChan = 1) => ENABLED TickCase)
    /\ [][(CycleFailed /\ ticksTaken' # ticksTaken)
            => (pc' = "Login" /\ cycles' = cycles + 1 /\ calls' = <<>> /\ afterFailure')]_vars
    /\ []((afterFailure /\ Len(calls) > 0) => (calls[1].step = "Login" /\ reqs[1].kind = "login"))

\* C5 witness: the cycle after one that failed has made its Login call and
\* goes on, with no termination request received.
C5_Witness == afterFailure /\ ~sigReceived /\ pc = "GetConnections" /\ Len(calls) = 1

\* C6: the steps of a cycle run in the order Login, GetConnections,
\* GetLatestReading, PostGlucoseReading; a step is called only when all
\* earlier steps succeeded; a failed step ends the cycle; the requests sent
\* are those of the steps called, in that order.
C6_StepsInOrder ==
    /\ Len(calls) <= 4
    /\ \A i \in 1..Len(calls) :
         /\ calls[i].step = StepOrder[i]
         /\ i < Len(calls) => calls[i].err = NoErr
    /\ (Len(calls) > 0 /\ calls[Len(calls)].err # NoErr) => pc \in {"select", "exited"}
    /\ Len(reqs) <= Len(calls)
    /\ \A i \in 1..Len(reqs) : reqs[i].kind = RequestOrder[i]
    /\ InCycle => pc = StepOrder[Len(calls) + 1]

\* C6 witness: GetLatestReading failed after two successful steps, the cycle
\* is over and no entries request was sent.
C6_Witness ==
    /\ pc = "select"
    /\ Len(calls) = 3
    /\ calls[3].err.msg = ErrGraphHTTP
    /\ Len(reqs) = 3

\* C7: the bearer token of the connections request and of the graph request
\* of a cycle is the token that the Login of the same cycle received.
C7_TokenOfSameCycle ==
    \A i \in 1..Len(reqs) :
        reqs[i].kind \in {"connections", "graph"} =>
            /\ calls[1].step = "Login"
            /\ calls[1].err = NoErr
            /\ reqs[1].kind = "login"
            /\ reqs[i].bearer = calls[1].got

\* C7 witness: a later cycle, whose login request still carried the header
\* of the earlier session, has sent its graph request.
C7_Witness ==
    /\ cycles = 2
    /\ Len(reqs) = 3
    /\ reqs[1].accountId = Sha256Hex("ACC123")
    /\ accountID = "ACC456"
    /\ reqs[3].bearer = "token-BBBBBBBBBBBBBBBBBBBB"

\* C8: once Login, GetConnections and GetLatestReading succeeded,
\* PostGlucoseReading is called with the reading whatever its age, and the
\* staleness warning is logged exactly when the elapsed time exceeds 15 minutes.
C8_StalenessNeverBlocks ==
    /\ (Len(calls) >= 3 /\ calls[3].err = NoErr) =>
         /\ Len(reading) = 1
         /\ (LineStale \in logged) <=> (elapsed > StaleThreshold)
         /\ \/ pc = "PostGlucoseReading"
            \/ /\ Len(calls) = 4
               /\ Len(reqs) = 4
               /\ reqs[4].kind = "entries"
               /\ reqs[4].date = reading[1].Timestamp
    /\ (LineStale \in logged) => (Len(calls) >= 3 /\ calls[3].err = NoErr)

\* C8 witness: a reading older than 15 minutes was posted, with the warning.
C8_Witness ==
    /\ Len(calls) = 4
    /\ calls[4].err = NoErr
    /\ elapsed = StaleThreshold + 1
    /\ LineStale \in logged
    /\ LinePosted \in logged

\* C9: in one cycle each of the four requests is sent at most once.
C9_NoRetry ==
    \A k \in {"login", "connections", "graph", "entries"} :
        Cardinality({i \in 1..Len(reqs) : reqs[i].kind = k}) <= 1

\* C9 witness: the entries request failed and was sent once.
C9_Witness ==
    /\ Len(calls) = 4
    /\ calls[4].err.msg \in {ErrPostTransport, ErrPostHTTP}
    /\ Len(reqs) = 4

\* C10: GetConnections and GetLatestReading called on a client whose stored
\* token is empty fail with the not-authenticated error, return nothing and
\* send no request.
C10_NotAuthenticated ==
    (/\ Len(calls) = 1
     /\ calls[1].step \in {"GetConnections", "GetLatestReading"}
     /\ authToken = "") =>
        /\ calls[1].err = Err(ErrNotAuth, 0, "")
        /\ reqs = <<>>
        /\ connections = <<>>
        /\ reading = <<>>

\* C10 witness: GetLatestReading was called on a client that never logged in
\* successfully.
C10_Witness ==
    /\ pc = "returned"
    /\ authToken = ""
    /\ calls = <<Call("GetLatestReading", Err(ErrNotAuth, 0, ""), Absent)>>

\* the one call made on a client that is called directly
Called(step) == Len(calls) = 1 /\ calls[1].step = step
UpstreamKinds == {"login", "connections", "graph"}

\* C11: Login returns an error when the endpoint is unreachable, the HTTP
\* status is not a success status, the body does not parse or the embedded
\* status is non-zero; in every other case it returns success, and the stored
\* token and account id are those of the login response.
C11_LoginOutcome ==
    Called("Login") =>
        LET resp == answers[1]
            failure == \/ ~resp.transport
                       \/ resp.http \notin 200..299
                       \/ ~resp.parses
                       \/ resp.status # 0
        IN  /\ pc = "returned"
            /\ IF failure THEN calls[1].err # NoErr
               ELSE /\ calls[1].err = NoErr
                    /\ authToken = resp.token
                    /\ accountID = resp.id

\* C12: on a successful connections answer with an empty list GetConnections
\* returns exactly one connection, with the account id the last successful
\* Login stored as patient id and "Self" as first name; on a non-empty list it
\* returns the upstream's connections, as many and in the same order.
C12_SelfConnection ==
    (/\ Called("GetConnections")
     /\ reqs # <<>>
     /\ answers[1].transport /\ answers[1].http = StatusOK /\ answers[1].parses) =>
        LET data == answers[1].data
        IN  /\ calls[1].err = NoErr
            /\ IF data = <<>>
               THEN connections = <<[PatientID |-> accountID, FirstName |-> "Self"]>>
               ELSE /\ Len(connections) = Len(data)
                    /\ \A i \in 1..Len(data) : connections[i].PatientID = data[i]

\* C12 witness: the upstream's list was empty and the connection returned is
\* the account's own.
C12_Witness ==
    /\ Called("GetConnections")
    /\ answers[1].parses /\ answers[1].data = <<>>
    /\ accountID = "ACC123"
    /\ connections = <<[PatientID |-> "ACC123", FirstName |-> "Self"]>>

\* C13: every upstream request sent while the client holds a token and an
\* account id (the login request of a later cycle included) carries as
\* account-id header the 64-character hex digest of the account id, and a
\* request sent without a session carries no account-id header.
C13_AccountIdHeader ==
    [][\A i \in (Len(reqs) + 1)..Len(reqs') :
          reqs'[i].kind \in UpstreamKinds =>
              IF authToken # "" /\ accountID # ""
              THEN /\ reqs'[i].accountId = Sha256Hex(accountID)
                   /\ Len(reqs'[i].accountId) = DigestHexLen
                   /\ reqs'[i].accountId # accountID
              ELSE reqs'[i].accountId = Absent]_vars

\* C13 witness: in a second cycle the login request, sent under the session
\* of the first cycle, and the two requests after it carry the digest.
C13_Witness ==
    /\ cycles = 2
    /\ Len(reqs) = 3
    /\ accountID = "ACC456"
    /\ \A i \in 1..3 : reqs[i].accountId = Sha256Hex("ACC456")

\* C14: no upstream request of a cycle (login, connections, graph) holds the
\* account id itself in its header, its URL path or its body.
C14_RawAccountIdNeverSent ==
    accountID # "" =>
        \A i \in 1..Len(reqs) :
            reqs[i].kind \in UpstreamKinds =>
                /\ reqs[i].accountId # accountID
                /\ reqs[i].patient # accountID
                /\ reqs[i].body.email # accountID
                /\ reqs[i].body.password # accountID

\* the seven labels, at the place of their code
SevenLabels ==
    <<"DoubleUp", "SingleUp", "FortyFiveUp", "Flat", "FortyFiveDown", "SingleDown",
      "DoubleDown">>
LabelOfCode(c) == IF c \in 1..7 THEN SevenLabels[c] ELSE "Unknown"
DirectionOfLabel(label) ==
    IF \E i \in 1..7 : SevenLabels[i] = label THEN label ELSE "NONE"

\* C15: the trend label of a reading is the label of the upstream's trend
\* code: the codes 1 to 7 have the seven labels in their order, each its own,
\* and every other code (0, negative, 8 and above) has "Unknown".
C15_TrendLabel ==
    (Called("GetLatestReading") /\ calls[1].err = NoErr) =>
        /\ Len(reading) = 1
        /\ reading[1].TrendArrow = LabelOfCode(answers[1].trend)
        /\ \A c \in 1..7 : reading[1].TrendArrow = SevenLabels[c] <=> answers[1].trend = c

\* C15 witness: a reading was built from the code 8, and its label is
\* "Unknown".
C15_Witness ==
    /\ Called("GetLatestReading")
    /\ calls[1].err = NoErr
    /\ answers[1].trend = 8
    /\ reading[1].TrendArrow = "Unknown"

\* C16: the direction of a posted entry is the reading's trend label when the
\* label is one of the seven, and "NONE" for any other label; so a reading of
\* the upstream's code c is posted with the label of c for c in 1..7 and with
\* "NONE" otherwise, and a reading with an unmapped label is posted all the
\* same.
C16_Direction ==
    /\ (Called("PostGlucoseReading") /\ reading # <<>>) =>
           /\ Len(reqs) = 1
           /\ reqs[1].kind = "entries"
           /\ reqs[1].direction = DirectionOfLabel(reading[1].TrendArrow)
    /\ (Called("GetLatestReading") /\ calls[1].err = NoErr) =>
           \A resp \in AnyEntriesResponses :
               LET posted == PostGlucoseReading(reading, resp).reqs
                   c == answers[1].trend
               IN  /\ Len(posted) = 1
                   /\ posted[1].direction = IF c \in 1..7 THEN SevenLabels[c] ELSE "NONE"

\* C16 witness: a reading whose label is none of the seven was posted, with
\* the direction "NONE".
C16_Witness ==
    /\ Called("PostGlucoseReading")
    /\ reading # <<>>
    /\ reading[1].TrendArrow = "NotComputable"
    /\ Len(reqs) = 1
    /\ reqs[1].direction = "NONE"

\* a base URL has a scheme when it starts with a name followed by "://"
HasScheme(base) == Len(base) >= 4 /\ SubSeq(base, 2, 4) = <<":", "/", "/">>
\* the host portion of a base URL without a scheme: what stands before the
\* first "/"
HostPortion(base) ==
    LET slashes == {i \in 1..Len(base) : base[i] = "/"}
    IN  IF slashes = {} THEN base
        ELSE SubSeq(base, 1, (CHOOSE i \in slashes : \A j \in slashes : i <= j) - 1)
NormalizedAsSpecified(base) ==
    IF HasScheme(base) THEN base
    ELSE IF \E i \in 1..Len(HostPortion(base)) : HostPortion(base)[i] = ":"
         THEN <<"http", ":", "/", "/">> \o base
         ELSE <<"https", ":", "/", "/">> \o base

\* C17: with a base URL that lacks a scheme PostGlucoseReading posts to
\* "http://" + base + "/api/v1/entries" when the host portion of the base has
\* a port separator ":" and to "https://" + base + "/api/v1/entries"
\* otherwise; a base URL that has a scheme is used as it is, so that
\* normalizing twice gives what normalizing once gives.
C17_PostingURL ==
    (Called("PostGlucoseReading") /\ reqs # <<>>) =>
        /\ reqs[1].url =
               NormalizedAsSpecified(baseURL) \o <<"/", "api", "/", "v1", "/", "entries">>
        /\ NormalizedBaseURL(NormalizedBaseURL(baseURL)) = NormalizedBaseURL(baseURL)

\* C18: PostGlucoseReading returns success exactly when the downstream's
\* status lies in 200..299; for a status outside it returns an error with
\* that status and the response body, and a transport failure is an error too.
C18_PostOutcome ==
    (Called("PostGlucoseReading") /\ reading # <<>>) =>
        LET resp == answers[1]
            err == calls[1].err
        IN  /\ err = NoErr <=> (resp.transport /\ resp.http \in 200..299)
            /\ (resp.transport /\ resp.http \notin 200..299) =>
                   err.status = resp.http /\ err.body = resp.body
            /\ ~resp.transport => err # NoErr

\* C18 witness: the downstream answered 204 and the call succeeded.
C18_Witness ==
    /\ Called("PostGlucoseReading")
    /\ reading # <<>>
    /\ answers[1].transport
    /\ answers[1].http = 204
    /\ calls[1].err = NoErr

\* C19: PostGlucoseReading called with a nil reading returns the error
\* "reading is nil" and sends no request.
C19_NilReading ==
    (Called("PostGlucoseReading") /\ reading = <<>>) =>
        /\ calls[1].err = Err(ErrNilReading, 0, "")
        /\ reqs = <<>>

\* C19 witness: PostGlucoseReading has returned from a call with nil.
C19_Witness ==
    /\ pc = "returned"
    /\ Called("PostGlucoseReading")
    /\ reading = <<>>
    /\ calls[1].err.msg = ErrNilReading

\* C20: in every posted entry date and dateString are the same instant, the
\* reading's timestamp: dateString read back as RFC 3339 gives date, for
\* every timestamp parseLibreLinkTimestamp returns.
C20_DateFieldsAgree ==
    (Called("PostGlucoseReading") /\ reqs # <<>>) =>
        /\ reqs[1].date = reading[1].Timestamp
        /\ ParseInLocation("2006-01-02T15:04:05Z07:00", reqs[1].dateString).ok
        /\ ParseInLocation("2006-01-02T15:04:05Z07:00", reqs[1].dateString).t = reqs[1].date

\* the texts that are a timestamp in one of the three accepted formats
AcceptedTimestampStrings ==
    {"11/19/2024 3:14:29 PM", "11/19/2024 15:14:29", "2024-11-19T15:14:29Z",
     "11/19/2024 3:14:29.123 PM", "2024-11-19T15:14:29.123Z"}

\* C21: when the upstream's timestamp is in none of the accepted formats (an
\* empty or missing one included), GetLatestReading returns the timestamp
\* error and no reading and the cycle ends without a request to Nightscout;
\* no reading with the zero time is returned or posted.
C21_TimestampError ==
    /\ (/\ Len(calls) >= 3
        /\ answers[3].transport /\ answers[3].http = StatusOK /\ answers[3].parses
        /\ answers[3].Timestamp \notin AcceptedTimestampStrings) =>
           /\ calls[3] = Call("GetLatestReading", Err(ErrTimestamp, 0, ""), Absent)
           /\ reading = <<>>
           /\ Len(calls) = 3
           /\ pc \in {"select", "exited"} /\ lastErr = Err(ErrTimestamp, 0, "")
           /\ \A i \in 1..Len(reqs) : reqs[i].kind # "entries"
    /\ reading # <<>> => reading[1].Timestamp # ZeroTime
    /\ \A i \in 1..Len(reqs) : reqs[i].kind = "entries" => reqs[i].date # ZeroTime

\* C21 witness: the upstream's measurement had a timestamp that is no
\* timestamp, and the cycle has ended after three requests.
C21_Witness ==
    /\ Len(calls) = 3
    /\ answers[3].parses
    /\ answers[3].Timestamp = "yesterday"
    /\ calls[3].err.msg = ErrTimestamp
    /\ Len(reqs) = 3
    /\ pc = "select"

\* the configuration the environment gives is valid: the four required
\* settings are there, the interval is unset or a positive whole number, the
\* region is unset or one of the region codes
RegionCodes ==
    {"AE", "AP", "AU", "CA", "DE", "EU", "EU2", "FR", "JP", "US", "LA", "RU", "CN"}
ValidEnvironment ==
    /\ env.LINK_UP_USERNAME # ""
    /\ env.LINK_UP_PASSWORD # ""
    /\ env.NIGHTSCOUT_URL # <<>>
    /\ env.NIGHTSCOUT_API_TOKEN # ""
    /\ env.LINK_UP_TIME_INTERVAL \in {"", "1", "5"}
    /\ env.LINK_UP_REGION \in {""} \cup RegionCodes
Started == pc \notin {"boot", "fatal"}

C23_PasswordNeverLogged ==
    /\ \A line \in logged : line # cfg[1].LinkUpPassword
    /\ \A line \in stdout : \A i \in 1..Len(line) : line[i] # cfg[1].LinkUpPassword

\* C24: when LINK_UP_TIME_INTERVAL is not set, the ticker of the scheduler
\* has an interval of 5 minutes.
C24_DefaultIntervalFive ==
    (Started /\ env.LINK_UP_TIME_INTERVAL = "") => TickerInterval = 5

\* C25: the termination request is looked at between cycles only: a running
\* cycle (the initial one included) is not interrupted by it and runs its
\* steps to its return, and once the request has arrived the process
\* eventually returns, whether a cycle was running or the scheduler was idle.
C25_CancellationBetweenCycles ==
    /\ [][InCycle => pc' # "exited"]_vars
    /\ (sigReceived /\ InCycle) ~> (lastErr # Running)
    /\ sigReceived ~> (pc = "exited")

\* C26: the one graph request of a cycle is for the first connection of the
\* list GetConnections returned, which is the first of the upstream's list
\* when that has one: GetLatestReading is called once, with
\* connections[0].PatientID, and the patient depends on the list alone.
C26_FirstConnection ==
    /\ \A i \in 1..Len(reqs) :
           reqs[i].kind = "graph" =>
               /\ i = 3
               /\ Len(connections) >= 1
               /\ reqs[i].patient = connections[1].PatientID
               /\ Len(answers[2].data) >= 1 => reqs[i].patient = answers[2].data[1]
    /\ Len(calls) >= 3 =>
           /\ calls[3].step = "GetLatestReading"
           /\ reqs[3].kind = "graph"
           /\ \A i \in 4..Len(calls) : calls[i].step # "GetLatestReading"

\* C26 witness: the list had two connections and the reading of the first
\* was requested.
C26_Witness ==
    /\ Len(connections) = 2
    /\ connections[1].PatientID = "P2"
    /\ connections[2].PatientID = "P1"
    /\ Len(reqs) >= 3
    /\ reqs[3].patient = "P2"

\* C27: a Login that returns an error leaves the stored token and the stored
\* account id as they were, so the session of an earlier cycle stays in the
\* client when the Login of a later cycle fails.
C27_FailedLoginKeepsSession ==
    [][(/\ pc = "Login"
        /\ pc' \notin {"Login", "panicked"}
        /\ calls'[1].err # NoErr) =>
            (authToken' = authToken /\ accountID' = accountID)]_vars

\* C27 witness: the Login of the second cycle has failed and the client
\* holds the session of the first.
C27_Witness ==
    /\ cycles = 2
    /\ Len(calls) = 1
    /\ calls[1].step = "Login"
    /\ calls[1].err # NoErr
    /\ authToken = "token-AAAAAAAAAAAAAAAAAAAA"
    /\ accountID = "ACC123"

====
